---- MODULE Spec2Model ----
(***************************************************************************)
(* python/setup.py of siggen: the build script as a state machine.        *)
(*                                                                         *)
(* The script is straight-line code; a step of the model is one statement  *)
(* (or one group of statements without calls into other code) of the       *)
(* script.  Calls into code outside the script (imports, make_source,      *)
(* cythonize, setup) either return or raise; an exception nobody catches   *)
(* ends the run (pc = "failed").                                           *)
(*                                                                         *)
(* Paths are sequences of components, "/" first for an absolute path;     *)
(* os.path.join of relative components is concatenation.                   *)
(***************************************************************************)
EXTENDS Naturals, Sequences, FiniteSets, TLC

VARIABLES
    pc,             \* the statement the interpreter is at
    exc,            \* the exception that ended the run, "none" otherwise
    failedAt,       \* the statement that raised it, "none" otherwise
    avail,          \* per importable module: "ok", "missing" (ImportError), "broken" (another exception)
    modName,        \* __name__
    osName,         \* os.name
    pyMajor,        \* sys.version_info[0]
    scriptFile,     \* __file__
    cwd,            \* the working directory os.path.abspath resolves against
    helper,         \* the module setup and Extension are bound from, "none" before
    imported,       \* the modules the script has imported so far
    builtinsNS,     \* the builtins module's namespace (process-wide)
    geometry_list,  \* local of the main block
    ext,            \* local of the main block: the Extension object
    extensions,     \* local of the main block: what cythonize returned
    makeSourceCalls,\* the argument of every call of make_source, in order
    cythonizeCalls, \* the argument of every call of cythonize, in order
    setupCalls,     \* the keyword arguments of every call of setup, in order
    trace           \* the steps taken so far, in order

vars == <<pc, exc, failedAt, avail, modName, osName, pyMajor, scriptFile, cwd,
          helper, imported, builtinsNS, geometry_list, ext, extensions,
          makeSourceCalls, cythonizeCalls, setupCalls, trace>>

env == <<avail, modName, osName, pyMajor, scriptFile, cwd>>

locals == <<geometry_list, ext, extensions>>

calls == <<makeSourceCalls, cythonizeCalls, setupCalls>>

(***************************************************************************)
(* The environment a run can start in.                                     *)
(***************************************************************************)
Modules == {"setuptools", "distutils.core", "numpy", "Cython.Build",
            "MakeGeometrySource", "siggen"}

ImportStates == {"ok", "missing", "broken"}

ModNames == {"__main__", "setup"}

OsNames == {"posix", "nt", "java"}

PyMajors == {2, 3}

ScriptFiles == {<<"setup.py">>,
                <<"/", "home", "siggen", "python", "setup.py">>}

Cwds == {<<"/", "home", "siggen", "python">>, <<"/", "work", "python">>}

BuiltinNames == {"__SIGGEN_SETUP__", "__import__", "open"}

FlagStates == {"unset", "True", "False"}

NoExt == [name |-> "none"]

(***************************************************************************)
(* Pure parts of the script.                                               *)
(***************************************************************************)
\* os.path.abspath(__file__)
abspath(p) == IF Head(p) = "/" THEN p ELSE cwd \o p

\* os.path.dirname
dirname(p) == SubSeq(p, 1, Len(p) - 1)

\* os.path.join
join(a, b) == a \o b

\* line 24
basedir == dirname(dirname(abspath(scriptFile)))

\* faulty variant of GeometryList: the identifiers in alphabetical order
GeometryList_Sorted == <<"GEM", "ICPC", "PPC">>

\* line 19
GeometryList == <<"PPC", "ICPC", "GEM">>

\* faulty variant of libraries: the test excludes Windows instead of
\* selecting posix
libraries_NotNt(os) == IF os # "nt" THEN <<"m">> ELSE << >>

\* lines 27-29
libraries(os) == IF os = "posix" THEN <<"m">> ELSE << >>

\* numpy.get_include(): a directory of the numpy installation
numpy_get_include == <<"/", "site-packages", "numpy", "core", "include">>

\* lines 30-34
include_dirs == << <<"siggen">>, join(basedir, <<"code">>), numpy_get_include >>

\* faulty variant of CppFiles: Utils.cpp left out
CppFiles_NoUtils == <<"cyl_point.cpp", "point.cpp", "GEM.cpp", "ICPC.cpp",
                      "PPC.cpp", "Setup.cpp", "VelocityLookup.cpp",
                      "VelocityModel.cpp">>

\* lines 37-45
CppFiles == <<"cyl_point.cpp", "point.cpp", "GEM.cpp", "ICPC.cpp", "PPC.cpp",
              "Setup.cpp", "Utils.cpp", "VelocityLookup.cpp",
              "VelocityModel.cpp">>

\* lines 36-49
src == [i \in 1..Len(CppFiles) |-> join(basedir, <<"code", CppFiles[i]>>)]
       \o << join(<<"siggen">>, <<"_siggen.pyx">>) >>

\* lines 51-62
Extension(os) ==
    [name               |-> "siggen._siggen",
     sources            |-> src,
     language           |-> "c++",
     libraries          |-> libraries(os),
     include_dirs       |-> include_dirs,
     extra_compile_args |-> <<"-std=c++11", "-Wno-unused-function",
                              "-Wno-uninitialized", "-DNO_THREADS">>,
     extra_link_args    |-> <<"-std=c++11">>]

\* line 63: what cythonize makes of its argument is Cython's business; the
\* script only keeps the returned list and hands it on.
cythonize(arg) == [cythonized |-> arg]

\* faulty variant of SetupKwargs: scipy not declared
SetupKwargs_NoScipy == [name             |-> "siggen",
                        version          |-> "siggen.__version__",
                        author           |-> "Ben Shanks",
                        author_email     |-> "benjamin.shanks@gmail.com",
                        packages         |-> <<"siggen">>,
                        install_requires |-> <<"numpy", "cython">>,
                        ext_modules      |-> extensions]

\* lines 74-86
SetupKwargs == [name             |-> "siggen",
                version          |-> "siggen.__version__",
                author           |-> "Ben Shanks",
                author_email     |-> "benjamin.shanks@gmail.com",
                packages         |-> <<"siggen">>,
                install_requires |-> <<"numpy", "scipy", "cython">>,
                ext_modules      |-> extensions]

\* lines 67-70: the name the builtins module has in this Python
BuiltinsModule == IF pyMajor < 3 THEN "__builtin__" ELSE "builtins"

(***************************************************************************)
(* Initial states.                                                         *)
(***************************************************************************)
Init ==
    /\ pc = "import_setuptools"
    /\ exc = "none"
    /\ failedAt = "none"
    /\ avail \in [Modules -> ImportStates]
    /\ modName \in ModNames
    /\ osName \in OsNames
    /\ pyMajor \in PyMajors
    /\ scriptFile \in ScriptFiles
    /\ cwd \in Cwds
    /\ helper = "none"
    /\ imported = {"os"}
    /\ builtinsNS \in {[n \in BuiltinNames |->
                          IF n = "__SIGGEN_SETUP__" THEN f ELSE "builtin"] :
                       f \in FlagStates}
    /\ geometry_list = << >>
    /\ ext = NoExt
    /\ extensions = [cythonized |-> << >>]
    /\ makeSourceCalls = << >>
    /\ cythonizeCalls = << >>
    /\ setupCalls = << >>
    /\ trace = << >>

(***************************************************************************)
(* Steps.                                                                  *)
(***************************************************************************)
\* an uncaught exception ends the run
Raise(e) ==
    /\ pc' = "failed"
    /\ exc' = e
    /\ failedAt' = pc

ExcOf(m) == IF avail[m] = "missing" THEN "ImportError" ELSE "OtherError"

\* lines 5-6: from setuptools import setup, Extension
ImportSetuptools ==
    /\ pc = "import_setuptools"
    /\ avail["setuptools"] = "ok"
    /\ helper' = "setuptools"
    /\ imported' = imported \cup {"setuptools"}
    /\ pc' = "main_guard"
    /\ trace' = Append(trace, "import_setuptools")
    /\ UNCHANGED <<exc, failedAt, env, builtinsNS, locals, calls>>

\* line 7: except ImportError
SetuptoolsImportError ==
    /\ pc = "import_setuptools"
    /\ avail["setuptools"] = "missing"
    /\ pc' = "import_distutils"
    /\ trace' = Append(trace, "except_ImportError")
    /\ UNCHANGED <<exc, failedAt, env, helper, imported, builtinsNS, locals, calls>>

\* faulty variant of SetuptoolsOtherError: a bare except clause, which
\* catches every exception
SetuptoolsOtherError_BareExcept ==
    /\ pc = "import_setuptools"
    /\ avail["setuptools"] = "broken"
    /\ pc' = "import_distutils"
    /\ trace' = Append(trace, "except_ImportError")
    /\ UNCHANGED <<exc, failedAt, env, helper, imported, builtinsNS, locals, calls>>

\* lines 5-7: an exception that is no ImportError passes the except clause
SetuptoolsOtherError ==
    /\ pc = "import_setuptools"
    /\ avail["setuptools"] = "broken"
    /\ Raise("OtherError")
    /\ UNCHANGED <<env, helper, imported, builtinsNS, locals, calls, trace>>

\* line 8: from distutils.core import setup, Extension
ImportDistutils ==
    /\ pc = "import_distutils"
    /\ avail["distutils.core"] = "ok"
    /\ helper' = "distutils.core"
    /\ imported' = imported \cup {"distutils.core"}
    /\ pc' = "main_guard"
    /\ trace' = Append(trace, "import_distutils")
    /\ UNCHANGED <<exc, failedAt, env, builtinsNS, locals, calls>>

ImportDistutilsRaises ==
    /\ pc = "import_distutils"
    /\ avail["distutils.core"] # "ok"
    /\ Raise(ExcOf("distutils.core"))
    /\ UNCHANGED <<env, helper, imported, builtinsNS, locals, calls, trace>>

\* line 11: if __name__ == "__main__"
EnterMain ==
    /\ pc = "main_guard"
    /\ modName = "__main__"
    /\ pc' = "import_numpy"
    /\ imported' = imported \cup {"sys"}
    /\ UNCHANGED <<exc, failedAt, env, helper, builtinsNS, locals, calls, trace>>

\* faulty variant of SkipMain: the main block without its guard
SkipMain_NoGuard ==
    /\ pc = "main_guard"
    /\ modName # "__main__"
    /\ pc' = "import_numpy"
    /\ imported' = imported \cup {"sys"}
    /\ UNCHANGED <<exc, failedAt, env, helper, builtinsNS, locals, calls, trace>>

SkipMain ==
    /\ pc = "main_guard"
    /\ modName # "__main__"
    /\ pc' = "done"
    /\ UNCHANGED <<exc, failedAt, env, helper, imported, builtinsNS, locals, calls, trace>>

\* an import statement of the main block: import module m, then go on at next
Import(at, m, next) ==
    /\ pc = at
    /\ avail[m] = "ok"
    /\ imported' = imported \cup {m}
    /\ pc' = next
    /\ trace' = Append(trace, at)
    /\ UNCHANGED <<exc, failedAt, env, helper, builtinsNS, locals, calls>>

ImportRaises(at, m) ==
    /\ pc = at
    /\ avail[m] # "ok"
    /\ Raise(ExcOf(m))
    /\ UNCHANGED <<env, helper, imported, builtinsNS, locals, calls, trace>>

\* line 15
ImportNumpy == Import("import_numpy", "numpy", "import_cython")

ImportNumpyRaises == ImportRaises("import_numpy", "numpy")

\* line 16
ImportCython == Import("import_cython", "Cython.Build", "import_make_source")

\* faulty variant of ImportCythonRaises: the ImportError is swallowed and the
\* script goes on without Cython
ImportCythonRaises_Degrades ==
    /\ pc = "import_cython"
    /\ avail["Cython.Build"] # "ok"
    /\ pc' = "import_make_source"
    /\ UNCHANGED <<exc, failedAt, env, helper, imported, builtinsNS, locals, calls,
                   trace>>

ImportCythonRaises == ImportRaises("import_cython", "Cython.Build")

\* faulty variant of ImportMakeSource: the call of make_source is left out
ImportMakeSource_NoCall ==
    Import("import_make_source", "MakeGeometrySource", "build_ext")

\* line 17
ImportMakeSource == Import("import_make_source", "MakeGeometrySource", "make_source")

ImportMakeSourceRaises == ImportRaises("import_make_source", "MakeGeometrySource")

\* lines 19-21: geometry_list = [...]; make_source(geometry_list)
MakeSource ==
    /\ pc = "make_source"
    /\ geometry_list' = GeometryList
    /\ makeSourceCalls' = Append(makeSourceCalls, GeometryList)
    /\ pc' = "build_ext"
    /\ trace' = Append(trace, "make_source")
    /\ UNCHANGED <<exc, failedAt, env, helper, imported, builtinsNS, ext, extensions,
                   cythonizeCalls, setupCalls>>

MakeSourceRaises ==
    /\ pc = "make_source"
    /\ geometry_list' = GeometryList
    /\ makeSourceCalls' = Append(makeSourceCalls, GeometryList)
    /\ Raise("OtherError")
    /\ UNCHANGED <<env, helper, imported, builtinsNS, ext, extensions,
                   cythonizeCalls, setupCalls, trace>>

\* lines 24-62: basedir, libraries, include_dirs, src, ext = Extension(...)
BuildExtension ==
    /\ pc = "build_ext"
    /\ ext' = Extension(osName)
    /\ pc' = "cythonize"
    /\ trace' = Append(trace, "Extension")
    /\ UNCHANGED <<exc, failedAt, env, helper, imported, builtinsNS, geometry_list,
                   extensions, calls>>

\* line 63: extensions = cythonize([ext])
Cythonize ==
    /\ pc = "cythonize"
    /\ cythonizeCalls' = Append(cythonizeCalls, <<ext>>)
    /\ extensions' = cythonize(<<ext>>)
    /\ pc' = "inject"
    /\ trace' = Append(trace, "cythonize")
    /\ UNCHANGED <<exc, failedAt, env, helper, imported, builtinsNS, geometry_list, ext,
                   makeSourceCalls, setupCalls>>

CythonizeRaises ==
    /\ pc = "cythonize"
    /\ cythonizeCalls' = Append(cythonizeCalls, <<ext>>)
    /\ Raise("OtherError")
    /\ UNCHANGED <<env, helper, imported, builtinsNS, locals,
                   makeSourceCalls, setupCalls, trace>>

\* faulty variant of InjectFlag: the constant is written to the wrong name
InjectFlag_WrongName ==
    /\ pc = "inject"
    /\ imported' = imported \cup {BuiltinsModule}
    /\ builtinsNS' = [builtinsNS EXCEPT !["open"] = "True"]
    /\ pc' = "import_siggen"
    /\ trace' = Append(trace, "inject")
    /\ UNCHANGED <<exc, failedAt, env, helper, locals, calls>>

\* lines 67-71: import the builtins module; builtins.__SIGGEN_SETUP__ = True
InjectFlag ==
    /\ pc = "inject"
    /\ imported' = imported \cup {BuiltinsModule}
    /\ builtinsNS' = [builtinsNS EXCEPT !["__SIGGEN_SETUP__"] = "True"]
    /\ pc' = "import_siggen"
    /\ trace' = Append(trace, "inject")
    /\ UNCHANGED <<exc, failedAt, env, helper, locals, calls>>

\* line 72
ImportSiggen == Import("import_siggen", "siggen", "setup")

ImportSiggenRaises == ImportRaises("import_siggen", "siggen")

\* lines 74-86: setup(...)
Setup ==
    /\ pc = "setup"
    /\ setupCalls' = Append(setupCalls, SetupKwargs)
    /\ pc' = "done"
    /\ trace' = Append(trace, "setup")
    /\ UNCHANGED <<exc, failedAt, env, helper, imported, builtinsNS, locals,
                   makeSourceCalls, cythonizeCalls>>

\* faulty variant of SetupRaises: the flag is removed again when setup fails
SetupRaises_Cleanup ==
    /\ pc = "setup"
    /\ setupCalls' = Append(setupCalls, SetupKwargs)
    /\ builtinsNS' = [builtinsNS EXCEPT !["__SIGGEN_SETUP__"] = "unset"]
    /\ Raise("OtherError")
    /\ UNCHANGED <<env, helper, imported, locals, makeSourceCalls,
                   cythonizeCalls, trace>>

SetupRaises ==
    /\ pc = "setup"
    /\ setupCalls' = Append(setupCalls, SetupKwargs)
    /\ Raise("OtherError")
    /\ UNCHANGED <<env, helper, imported, builtinsNS, locals,
                   makeSourceCalls, cythonizeCalls, trace>>

Next ==
    \/ ImportSetuptools
    \/ SetuptoolsImportError
    \/ SetuptoolsOtherError
    \/ ImportDistutils
    \/ ImportDistutilsRaises
    \/ EnterMain
    \/ SkipMain
    \/ ImportNumpy
    \/ ImportNumpyRaises
    \/ ImportCython
    \/ ImportCythonRaises
    \/ ImportMakeSource
    \/ ImportMakeSourceRaises
    \/ MakeSource
    \/ MakeSourceRaises
    \/ BuildExtension
    \/ Cythonize
    \/ CythonizeRaises
    \/ InjectFlag
    \/ ImportSiggen
    \/ ImportSiggenRaises
    \/ Setup
    \/ SetupRaises

Spec == Init /\ [][Next]_vars

(***************************************************************************)
(* Vocabulary of the properties.                                           *)
(***************************************************************************)
IsPrefix(s, t) == Len(s) <= Len(t) /\ s = SubSeq(t, 1, Len(s))

Occurs(e) == \E i \in 1..Len(trace) : trace[i] = e

Ended == pc \in {"done", "failed"}

IsMain == modName = "__main__"

Flag == builtinsNS["__SIGGEN_SETUP__"]

\* the steps of the main block, in the order of the script's text
MainSteps == <<"import_numpy", "import_cython", "import_make_source",
               "make_source", "Extension", "cythonize", "inject",
               "import_siggen", "setup">>

HelperSteps == {"import_setuptools", "except_ImportError", "import_distutils"}

MainTrace == SelectSeq(trace, LAMBDA e : e \notin HelperSteps)

(***************************************************************************)
(* C1.  The build steps of a run as the main script happen in the order:   *)
(* the imports of numpy, cythonize and make_source; the call of            *)
(* make_source; the construction of the Extension and the call of          *)
(* cythonize; the call of setup.  The completed steps are always an        *)
(* initial part of that list, cythonize is not called before make_source   *)
(* has returned, setup is not called before cythonize has returned, and    *)
(* after a step has raised no later step has run.                          *)
(***************************************************************************)
C1_StepOrder ==
    /\ IsPrefix(MainTrace, MainSteps)
    /\ makeSourceCalls # << >> =>
          /\ Occurs("import_numpy")
          /\ Occurs("import_cython")
          /\ Occurs("import_make_source")
    /\ ext # NoExt => Occurs("make_source")
    /\ cythonizeCalls # << >> => Occurs("make_source") /\ Occurs("Extension")
    /\ setupCalls # << >> => Occurs("cythonize")
    /\ failedAt = "make_source" =>
          ext = NoExt /\ cythonizeCalls = << >> /\ setupCalls = << >>
    /\ failedAt = "cythonize" => setupCalls = << >>
    /\ failedAt \in {"import_numpy", "import_cython", "import_make_source"} =>
          /\ makeSourceCalls = << >>
          /\ ext = NoExt
          /\ cythonizeCalls = << >>
          /\ setupCalls = << >>

C1_Witness ==
    /\ IsMain
    /\ pc = "done"
    /\ MainTrace = MainSteps
    /\ Len(makeSourceCalls) = 1
    /\ Len(cythonizeCalls) = 1
    /\ Len(setupCalls) = 1

(***************************************************************************)
(* C2, as the specification states it.  When numpy or Cython is missing    *)
(* the build does not fail: a run as the main script that has ended has    *)
(* reached the call of setup.                                              *)
(***************************************************************************)
DepMissing == avail["numpy"] = "missing" \/ avail["Cython.Build"] = "missing"

C2_Degrades ==
    (IsMain /\ "sys" \in imported /\ DepMissing /\ Ended) =>
        (pc = "done" /\ Len(setupCalls) = 1)

(***************************************************************************)
(* C2, amended.  When numpy or Cython is missing, a run that enters the    *)
(* main block never calls make_source, cythonize or setup and never        *)
(* builds the Extension: it ends at the import statement of line 15 or 16  *)
(* with the exception that import raised (ImportError for the missing      *)
(* module), which nothing catches.                                         *)
(***************************************************************************)
C2_MissingDepFails ==
    (IsMain /\ "sys" \in imported /\ DepMissing) =>
        /\ pc \in {"import_numpy", "import_cython", "failed"}
        /\ makeSourceCalls = << >>
        /\ cythonizeCalls = << >>
        /\ setupCalls = << >>
        /\ ext = NoExt
        /\ pc = "failed" =>
              /\ failedAt \in {"import_numpy", "import_cython"}
              /\ (failedAt = "import_numpy" /\ avail["numpy"] = "missing") =>
                    exc = "ImportError"
              /\ failedAt = "import_cython" => exc = "ImportError"

C2_Witness ==
    /\ IsMain
    /\ avail["numpy"] = "ok"
    /\ avail["Cython.Build"] = "missing"
    /\ pc = "failed"
    /\ failedAt = "import_cython"
    /\ exc = "ImportError"

(***************************************************************************)
(* C3.  setup and Extension come from setuptools when importing it         *)
(* succeeds; the import from distutils.core is attempted exactly when      *)
(* importing setuptools raised ImportError; after either import the        *)
(* script goes on with the same steps; an exception of the setuptools      *)
(* import that is no ImportError ends the run at that import.              *)
(***************************************************************************)
HelperChosen == pc \notin {"import_setuptools", "import_distutils"}
                /\ failedAt \notin {"import_setuptools", "import_distutils"}

C3_ImportFallback ==
    /\ helper = "setuptools" => avail["setuptools"] = "ok"
    /\ helper = "distutils.core" => avail["setuptools"] = "missing"
    /\ (pc = "import_distutils" \/ failedAt = "import_distutils"
           \/ "distutils.core" \in imported) <=>
          (avail["setuptools"] = "missing" /\ pc # "import_setuptools")
    /\ HelperChosen =>
          /\ avail["setuptools"] = "ok" => helper = "setuptools"
          /\ avail["setuptools"] = "missing" => helper = "distutils.core"
          /\ helper # "none"
          /\ trace = (IF helper = "setuptools"
                        THEN <<"import_setuptools">>
                        ELSE <<"except_ImportError", "import_distutils">>)
                     \o MainTrace
          /\ IsPrefix(MainTrace, MainSteps)
          /\ pc = "done" /\ IsMain => MainTrace = MainSteps
    /\ (avail["setuptools"] = "broken" /\ pc # "import_setuptools") =>
          /\ pc = "failed"
          /\ failedAt = "import_setuptools"
          /\ exc = "OtherError"
          /\ helper = "none"
          /\ trace = << >>

C3_Witness ==
    /\ helper = "distutils.core"
    /\ avail["setuptools"] = "missing"
    /\ IsMain
    /\ pc = "done"
    /\ Len(setupCalls) = 1

(***************************************************************************)
(* C4.  Every call of setup gets as ext_modules what cythonize returned    *)
(* for a list of exactly one Extension, named siggen._siggen, whose        *)
(* sources are the nine C++ files under <basedir>/code in the stated       *)
(* order followed by siggen/_siggen.pyx, without repetition; cythonize     *)
(* was called once, with that list.                                        *)
(***************************************************************************)
NineCppFiles == <<"cyl_point.cpp", "point.cpp", "GEM.cpp", "ICPC.cpp",
                  "PPC.cpp", "Setup.cpp", "Utils.cpp", "VelocityLookup.cpp",
                  "VelocityModel.cpp">>

IsTheExtension(e) ==
    /\ e.name = "siggen._siggen"
    /\ Len(e.sources) = 10
    /\ \A i \in 1..9 : e.sources[i] = basedir \o <<"code", NineCppFiles[i]>>
    /\ e.sources[10] = <<"siggen", "_siggen.pyx">>
    /\ \A i, j \in 1..10 : e.sources[i] = e.sources[j] => i = j

C4_OneExtension ==
    \A k \in 1..Len(setupCalls) :
        /\ Len(cythonizeCalls) = 1
        /\ Len(cythonizeCalls[1]) = 1
        /\ IsTheExtension(cythonizeCalls[1][1])
        /\ setupCalls[k].ext_modules = [cythonized |-> cythonizeCalls[1]]

C4_Witness ==
    /\ Len(setupCalls) = 1
    /\ scriptFile = <<"setup.py">>
    /\ cwd = <<"/", "work", "python">>
    /\ setupCalls[1].ext_modules.cythonized[1].sources[7]
          = <<"/", "work", "code", "Utils.cpp">>

(***************************************************************************)
(* C5.  make_source is called at most once, always with the list PPC,      *)
(* ICPC, GEM in that order, whatever the platform and the environment;     *)
(* once the Extension is constructed or cythonize is called it has been    *)
(* called exactly once and has returned.                                   *)
(***************************************************************************)
C5_MakeSourceOnce ==
    /\ Len(makeSourceCalls) <= 1
    /\ \A k \in 1..Len(makeSourceCalls) :
          /\ Len(makeSourceCalls[k]) = 3
          /\ makeSourceCalls[k][1] = "PPC"
          /\ makeSourceCalls[k][2] = "ICPC"
          /\ makeSourceCalls[k][3] = "GEM"
    /\ (ext # NoExt \/ cythonizeCalls # << >> \/ pc = "build_ext") =>
          /\ Len(makeSourceCalls) = 1
          /\ Occurs("make_source")
    /\ (IsMain /\ pc = "done") => Len(makeSourceCalls) = 1

C5_Witness ==
    /\ pc = "build_ext"
    /\ osName = "nt"
    /\ makeSourceCalls = << <<"PPC", "ICPC", "GEM">> >>
    /\ ext = NoExt

(***************************************************************************)
(* C6, as the specification states it.  No step of a run writes a          *)
(* process-wide variable: the builtins namespace never changes.            *)
(***************************************************************************)
C6_NoGlobalWrite == [][builtinsNS' = builtinsNS]_vars

(***************************************************************************)
(* C6, amended.  The script writes one process-wide variable and no        *)
(* other: the only step that changes the builtins namespace is the         *)
(* assignment of line 71, after cythonize has returned and before siggen   *)
(* is imported, and it changes only __SIGGEN_SETUP__, to True.             *)
(***************************************************************************)
C6_OnlyTheFlag ==
    [][builtinsNS' # builtinsNS =>
          /\ pc = "inject"
          /\ pc' = "import_siggen"
          /\ Occurs("cythonize")
          /\ "siggen" \notin imported
          /\ builtinsNS' = [builtinsNS EXCEPT !["__SIGGEN_SETUP__"] = "True"]]_vars

C6_Witness ==
    /\ pc = "import_siggen"
    /\ trace[Len(trace)] = "inject"
    /\ builtinsNS = [n \in BuiltinNames |->
                        IF n = "__SIGGEN_SETUP__" THEN "True" ELSE "builtin"]

(***************************************************************************)
(* C7.  Every call of setup declares install_requires = numpy, scipy,      *)
(* cython and packages = [siggen], whatever the platform, the Python       *)
(* major version and the packaging helper.                                 *)
(***************************************************************************)
C7_Requirements ==
    \A k \in 1..Len(setupCalls) :
        /\ Len(setupCalls[k].install_requires) = 3
        /\ {setupCalls[k].install_requires[i] : i \in 1..3}
              = {"numpy", "scipy", "cython"}
        /\ setupCalls[k].packages = <<"siggen">>

C7_Witness ==
    /\ Len(setupCalls) = 1
    /\ helper = "distutils.core"
    /\ osName = "nt"
    /\ pyMajor = 2

(***************************************************************************)
(* C8.  The Extension's libraries are [m] exactly when os.name is posix    *)
(* and empty otherwise, and every other field of the Extension is the      *)
(* same for every os.name.                                                 *)
(***************************************************************************)
WithoutLibraries(e) == [e EXCEPT !.libraries = << >>]

C9_FlagBeforeImport ==
    /\ (pc = "import_siggen" \/ failedAt = "import_siggen"
           \/ "siggen" \in imported) => (Occurs("inject") /\ Flag = "True")
    /\ setupCalls # << >> => (Occurs("import_siggen") /\ "siggen" \in imported)
    /\ Occurs("inject") =>
          /\ Flag = "True"
          /\ pyMajor = 2 => "__builtin__" \in imported /\ "builtins" \notin imported
          /\ pyMajor = 3 => "builtins" \in imported /\ "__builtin__" \notin imported

C9_Witness ==
    /\ pc = "failed"
    /\ failedAt = "setup"
    /\ pyMajor = 2
    /\ Len(setupCalls) = 1
    /\ Flag = "True"

(***************************************************************************)
(* C10.  When __name__ is not __main__ no build step runs: make_source,    *)
(* cythonize and setup are never called, no Extension is built, the        *)
(* builtins namespace is never changed, and nothing is imported beyond     *)
(* os and the packaging helper.                                            *)
(***************************************************************************)
C10_NotMain ==
    /\ [](~IsMain =>
            /\ makeSourceCalls = << >>
            /\ cythonizeCalls = << >>
            /\ setupCalls = << >>
            /\ ext = NoExt
            /\ MainTrace = << >>
            /\ imported \subseteq {"os", "setuptools", "distutils.core"}
            /\ pc \in {"import_setuptools", "import_distutils", "main_guard",
                       "done", "failed"})
    /\ [][~IsMain => builtinsNS' = builtinsNS]_vars

C10_Witness ==
    /\ ~IsMain
    /\ pc = "done"
    /\ helper = "distutils.core"
    /\ Flag = "unset"

====
